---- MODULE Spec2Model ----
(***************************************************************************)
(* Model of the Logger class of @jacobhumston/util (primary variant, with  *)
(* padded prefixes and logJSON).                                           *)
(*                                                                         *)
(* A JavaScript string is a sequence of characters, every character a      *)
(* one-character TLA+ string, except the escape character U+001B, written  *)
(* ESC.  A JavaScript value is a record tagged by its field t.             *)
(***************************************************************************)
EXTENDS Integers, Sequences, FiniteSets, TLC

\* ------------------------------------------------------------------------
\* Characters and string helpers
\* ------------------------------------------------------------------------

ESC == "ESC"
LF == "\n"
CR == "\r"
QUOTE == "\""
BACKSLASH == "\\"

Digits == <<"0", "1", "2", "3", "4", "5", "6", "7", "8", "9">>

IsDigit(c) == \E i \in 1..Len(Digits) : Digits[i] = c

LowerCase == <<"a", "b", "c", "d", "e", "f", "g", "h", "i", "j", "k", "l", "m",
               "n", "o", "p", "q", "r", "s", "t", "u", "v", "w", "x", "y", "z">>

UpperCase == <<"A", "B", "C", "D", "E", "F", "G", "H", "I", "J", "K", "L", "M",
               "N", "O", "P", "Q", "R", "S", "T", "U", "V", "W", "X", "Y", "Z">>

\* Mutant: the text is left in the case it came in.
toUpperCase_Unchanged(s) == s

\* String.prototype.toUpperCase, character by character.
toUpperCase(s) ==
    [i \in 1..Len(s) |->
        IF \E k \in 1..Len(LowerCase) : LowerCase[k] = s[i]
        THEN UpperCase[CHOOSE k \in 1..Len(LowerCase) : LowerCase[k] = s[i]]
        ELSE s[i]]

\* String.prototype.repeat for a one-character string.
repeat(c, n) == [i \in 1..n |-> c]

\* TRUE iff pat occurs in s starting at index i.
OccursAt(s, pat, i) ==
    /\ i + Len(pat) - 1 <= Len(s)
    /\ \A k \in 1..Len(pat) : s[i + k - 1] = pat[k]

\* The first index from i on where pat occurs in s, or 0.
IndexOf(s, pat, i) ==
    IF \E j \in i..Len(s) : OccursAt(s, pat, j)
    THEN CHOOSE j \in i..Len(s) :
             OccursAt(s, pat, j) /\ \A k \in i..(j - 1) : ~OccursAt(s, pat, k)
    ELSE 0

RECURSIVE ReplaceFrom(_, _, _, _)
ReplaceFrom(s, pat, rep, i) ==
    LET j == IndexOf(s, pat, i)
    IN IF j = 0 THEN SubSeq(s, i, Len(s))
       ELSE SubSeq(s, i, j - 1) \o rep \o ReplaceFrom(s, pat, rep, j + Len(pat))

\* Mutant: String.prototype.replace with a literal pattern, which replaces the
\* first occurrence only.
replaceAll_FirstOnly(s, pat, rep) ==
    LET j == IndexOf(s, pat, 1)
    IN IF j = 0 THEN s
       ELSE SubSeq(s, 1, j - 1) \o rep \o SubSeq(s, j + Len(pat), Len(s))

\* String.prototype.replaceAll with a non-empty literal pattern: every
\* non-overlapping occurrence, left to right; the replacement text is not
\* rescanned.  No text of the model holds a "$", so the replacement is literal.
replaceAll(s, pat, rep) == ReplaceFrom(s, pat, rep, 1)

\* ------------------------------------------------------------------------
\* JavaScript values
\* ------------------------------------------------------------------------

Null == [t |-> "null"]
Undefined == [t |-> "undefined"]
Str(s) == [t |-> "str", s |-> s]
Bool(b) == [t |-> "bool", b |-> b]
Num(n) == [t |-> "num", n |-> n]
Arr(items) == [t |-> "arr", items |-> items]
Obj(props) == [t |-> "obj", props |-> props]
\* An object that refers to itself: JSON.stringify throws on it.
Circular == [t |-> "circular"]
\* The completion of an expression that threw.
Throw == [t |-> "throw"]

\* ------------------------------------------------------------------------
\* Types and tables of the Logger
\* ------------------------------------------------------------------------

info == <<"i", "n", "f", "o">>
warn == <<"w", "a", "r", "n">>
error == <<"e", "r", "r", "o", "r">>
debug == <<"d", "e", "b", "u", "g">>
success == <<"s", "u", "c", "c", "e", "s", "s">>
misc == <<"m", "i", "s", "c">>

loggerTypes == <<info, warn, error, debug, success, misc>>

LoggerType == {loggerTypes[i] : i \in 1..Len(loggerTypes)}

Max(S) == CHOOSE x \in S : \A y \in S : y <= x

largestLoggerTypeLength == Max({Len(loggerTypes[i]) : i \in 1..Len(loggerTypes)})

LineType == {"new", "current", "overlap", "doubleNew", "space", "replace"}

escapeSequence(lineType) ==
    CASE lineType = "new" -> <<LF>>
      [] lineType = "current" -> <<>>
      [] lineType = "overlap" -> <<CR>>
      [] lineType = "doubleNew" -> <<LF, LF>>
      [] lineType = "space" -> <<" ">>
      [] lineType = "replace" -> <<ESC, "[", "2", "K", CR>>

colors(type) ==
    CASE type = info -> <<ESC, "[", "3", "4", "m">>
      [] type = warn -> <<ESC, "[", "3", "3", "m">>
      [] type = error -> <<ESC, "[", "3", "1", "m">>
      [] type = debug -> <<ESC, "[", "3", "6", "m">>
      [] type = success -> <<ESC, "[", "3", "2", "m">>
      [] type = misc -> <<ESC, "[", "3", "7", "m">>

resetCode == <<ESC, "[", "0", "m">>

\* Logger.colorType
colorType(type, typeString) == colors(type) \o typeString \o resetCode

\* ------------------------------------------------------------------------
\* JSON.stringify (ECMA-262 25.5.2), for the values above
\* ------------------------------------------------------------------------

RECURSIVE NatToString(_)
NatToString(n) ==
    IF n < 10 THEN <<Digits[n + 1]>>
    ELSE NatToString(n \div 10) \o <<Digits[(n % 10) + 1]>>

\* Number::toString for an integer.
NumberToString(n) == IF n < 0 THEN <<"-">> \o NatToString(-n) ELSE NatToString(n)

\* The escape QuoteJSONString emits for one character.
QuoteChar(c) ==
    CASE c = QUOTE -> <<BACKSLASH, QUOTE>>
      [] c = BACKSLASH -> <<BACKSLASH, BACKSLASH>>
      [] c = LF -> <<BACKSLASH, "n">>
      [] c = CR -> <<BACKSLASH, "r">>
      [] c = ESC -> <<BACKSLASH, "u", "0", "0", "1", "b">>
      [] OTHER -> <<c>>

RECURSIVE QuoteBody(_)
QuoteBody(s) == IF s = <<>> THEN <<>> ELSE QuoteChar(Head(s)) \o QuoteBody(Tail(s))

QuoteJSONString(s) == <<QUOTE>> \o QuoteBody(s) \o <<QUOTE>>

RECURSIVE Join(_, _)
Join(parts, sep) ==
    IF parts = <<>> THEN <<>>
    ELSE IF Len(parts) = 1 THEN parts[1]
    ELSE parts[1] \o sep \o Join(Tail(parts), sep)

\* The gap JSON.stringify derives from its space argument: at most 10 spaces,
\* none below 1.
Gap(space) == IF space < 1 THEN <<>> ELSE repeat(" ", IF space > 10 THEN 10 ELSE space)

RECURSIVE SerializeJSONProperty(_, _, _)
\* The members (or elements) of a container, serialized one level deeper.
SerializeItems(values, indent, gap) ==
    [i \in 1..Len(values) |-> SerializeJSONProperty(values[i], indent \o gap, gap)]

\* The text of a non-empty container from the text of its parts.
Wrap(open, close, partial, stepback, gap) ==
    IF partial = <<>> THEN <<open, close>>
    ELSE IF gap = <<>> THEN <<open>> \o Join(partial, <<",">>) \o <<close>>
    ELSE <<open, LF>> \o stepback \o gap
         \o Join(partial, <<",", LF>> \o stepback \o gap)
         \o <<LF>> \o stepback \o <<close>>

SerializeJSONArray(items, stepback, gap) ==
    LET strs == SerializeItems(items, stepback, gap)
        partial == [i \in 1..Len(strs) |->
                      IF strs[i].t = "undefined" THEN <<"n", "u", "l", "l">> ELSE strs[i].s]
    IN IF \E i \in 1..Len(strs) : strs[i].t = "throw" THEN Throw
       ELSE Str(Wrap("[", "]", partial, stepback, gap))

SerializeJSONObject(props, stepback, gap) ==
    LET strs == SerializeItems([i \in 1..Len(props) |-> props[i][2]], stepback, gap)
        kept == SelectSeq([i \in 1..Len(props) |-> i], LAMBDA i : strs[i].t # "undefined")
        partial == [k \in 1..Len(kept) |->
                      QuoteJSONString(props[kept[k]][1]) \o <<":">>
                      \o (IF gap = <<>> THEN <<>> ELSE <<" ">>)
                      \o strs[kept[k]].s]
    IN IF \E i \in 1..Len(strs) : strs[i].t = "throw" THEN Throw
       ELSE Str(Wrap("{", "}", partial, stepback, gap))

SerializeJSONProperty(value, indent, gap) ==
    CASE value.t = "null" -> Str(<<"n", "u", "l", "l">>)
      [] value.t = "bool" -> Str(IF value.b THEN <<"t", "r", "u", "e">>
                                  ELSE <<"f", "a", "l", "s", "e">>)
      [] value.t = "str" -> Str(QuoteJSONString(value.s))
      [] value.t = "num" -> Str(NumberToString(value.n))
      [] value.t = "arr" -> SerializeJSONArray(value.items, indent, gap)
      [] value.t = "obj" -> SerializeJSONObject(value.props, indent, gap)
      [] value.t = "circular" -> Throw
      [] value.t = "undefined" -> Undefined

\* JSON.stringify(value, null, space): a string, undefined, or a throw.  space
\* is a number, or undefined when the call gives none.
JSONstringify(value, space) ==
    SerializeJSONProperty(value, <<>>, IF space.t = "num" THEN Gap(space.n) ELSE <<>>)

\* ------------------------------------------------------------------------
\* The regular expressions of logJSON, matched as String.prototype.replace
\* matches a global regular expression: leftmost first, greedy, each search
\* resuming where the last match ended.  A matcher gives the index after the
\* match that starts at i, or 0 when nothing matches at i.
\* ------------------------------------------------------------------------

IsSpace(c) == c \in {" ", LF, CR}

RECURSIVE DigitsEnd(_, _)
\* \d* from j: the index after the run of digits.
DigitsEnd(s, j) == IF j <= Len(s) /\ IsDigit(s[j]) THEN DigitsEnd(s, j + 1) ELSE j

RECURSIVE SpacesEnd(_, _)
\* \s* from j.
SpacesEnd(s, j) == IF j <= Len(s) /\ IsSpace(s[j]) THEN SpacesEnd(s, j + 1) ELSE j

RECURSIVE StringBodyEnd(_, _)
\* [^"\\]*(\\.[^"\\]*)*" from j, the index after the closing quote.
StringBodyEnd(s, j) ==
    IF j > Len(s) THEN 0
    ELSE IF s[j] = QUOTE THEN j + 1
    ELSE IF s[j] = BACKSLASH
         THEN IF j + 1 <= Len(s) /\ s[j + 1] \notin {LF, CR}
              THEN StringBodyEnd(s, j + 2)
              ELSE 0
    ELSE StringBodyEnd(s, j + 1)

\* /"([^"\\]*(\\.[^"\\]*)*)"/
MatchString(s, i) == IF s[i] = QUOTE THEN StringBodyEnd(s, i + 1) ELSE 0

\* /"([^"\\]*(\\.[^"\\]*)*)"\s*:/
MatchKey(s, i) ==
    LET e == MatchString(s, i)
        c == SpacesEnd(s, e)
    IN IF e = 0 THEN 0
       ELSE IF c <= Len(s) /\ s[c] = ":" THEN c + 1 ELSE 0

\* /-?\d+(\.\d+)?([eE][+-]?\d+)?/
MatchNumber(s, i) ==
    LET a == IF s[i] = "-" THEN i + 1 ELSE i
        b == DigitsEnd(s, a)
        f == IF b <= Len(s) /\ s[b] = "." /\ DigitsEnd(s, b + 1) > b + 1
             THEN DigitsEnd(s, b + 1) ELSE b
        d == IF f + 1 <= Len(s) /\ s[f + 1] \in {"+", "-"} THEN f + 2 ELSE f + 1
        x == IF f <= Len(s) /\ s[f] \in {"e", "E"} /\ DigitsEnd(s, d) > d
             THEN DigitsEnd(s, d) ELSE f
    IN IF b = a THEN 0 ELSE x

\* /true|false/
MatchBoolean(s, i) ==
    IF OccursAt(s, <<"t", "r", "u", "e">>, i) THEN i + 4
    ELSE IF OccursAt(s, <<"f", "a", "l", "s", "e">>, i) THEN i + 5
    ELSE 0

\* /null/
MatchNull(s, i) == IF OccursAt(s, <<"n", "u", "l", "l">>, i) THEN i + 4 ELSE 0

\* Object.entries(colors) of logJSON, in insertion order.
jsonColors ==
    << [name |-> "key", color |-> <<ESC, "[", "3", "4", "m">>],
       [name |-> "string", color |-> <<ESC, "[", "3", "2", "m">>],
       [name |-> "number", color |-> <<ESC, "[", "3", "3", "m">>],
       [name |-> "boolean", color |-> <<ESC, "[", "3", "3", "m">>],
       [name |-> "null", color |-> <<ESC, "[", "3", "3", "m">>] >>

regexMatch(name, s, i) ==
    CASE name = "key" -> MatchKey(s, i)
      [] name = "string" -> MatchString(s, i)
      [] name = "number" -> MatchNumber(s, i)
      [] name = "boolean" -> MatchBoolean(s, i)
      [] name = "null" -> MatchNull(s, i)

\* The first index from i on where the expression matches, or 0.
SearchFrom(name, s, i) ==
    IF \E j \in i..Len(s) : regexMatch(name, s, j) > j
    THEN CHOOSE j \in i..Len(s) :
             regexMatch(name, s, j) > j /\ \A k \in i..(j - 1) : regexMatch(name, s, k) = 0
    ELSE 0

RECURSIVE MatchesFrom(_, _, _)
\* The texts jsonText.replace(regex, callback) hands its callback, from i on.
MatchesFrom(name, s, i) ==
    LET j == SearchFrom(name, s, i)
    IN IF j = 0 THEN <<>>
       ELSE <<SubSeq(s, j, regexMatch(name, s, j) - 1)>>
            \o MatchesFrom(name, s, regexMatch(name, s, j))

RECURSIVE CollectMatches(_, _)
\* logJSON's first loop: the matches array, over the entries from k on.
CollectMatches(jsonText, k) ==
    IF k > Len(jsonColors) THEN <<>>
    ELSE LET found == MatchesFrom(jsonColors[k].name, jsonText, 1)
         IN [i \in 1..Len(found) |-> [text |-> found[i], color |-> jsonColors[k].color]]
            \o CollectMatches(jsonText, k + 1)

RECURSIVE ApplyMatches(_, _, _)
\* logJSON's second loop: one replaceAll per remembered match, in order.
ApplyMatches(jsonText, matches, k) ==
    IF k > Len(matches) THEN jsonText
    ELSE ApplyMatches(
             replaceAll(jsonText, matches[k].text,
                        matches[k].color \o matches[k].text \o resetCode),
             matches, k + 1)

\* The body of logJSON's if (this.useColor) block.
colorizeJSON(jsonText) == ApplyMatches(jsonText, CollectMatches(jsonText, 1), 1)

\* ------------------------------------------------------------------------
\* The Logger: its fields, and what a test harness records of one call
\* ------------------------------------------------------------------------

VARIABLES
    useColor,                  \* Logger.useColor
    onLog,                     \* TRUE iff Logger.onLog is set (to a recording observer)
    getPrefixForTypeOverride,  \* "unset", or the name of the function installed
    call,                      \* the call made since the recordings were last cleared
    events,                    \* what the observer and the sink received, in order
    result                     \* how the call ended, and what it returned

vars == <<useColor, onLog, getPrefixForTypeOverride, call, events, result>>

\* A default parameter value applies when the argument is undefined.
Default(arg, dflt) == IF arg.t = "undefined" THEN dflt ELSE arg

\* The records of the two side effects.
OnLogEvent(type, message) == [kind |-> "onLog", type |-> type, message |-> message]
WriteEvent(text) == [kind |-> "write", text |-> text]

\* An effectful method yields the events it caused and how it ended.
Returned(evs) == [events |-> evs, outcome |-> "returned"]
Threw(evs) == [events |-> evs, outcome |-> "threw"]

\* The superseded variant's getPrefixForType, bound to its DefaultLogger
\* (constructed with the default useColor): the sample function installed as
\* getPrefixForTypeOverride.  It takes no prefix text.
legacyUseColor == TRUE

legacyGetPrefixForType(type, useColorOverride) ==
    LET bracketed == <<"[">> \o type \o <<"]", ":">>
    IN IF (IF useColorOverride.t = "null" THEN legacyUseColor ELSE useColorOverride.b)
       THEN colorType(type, bracketed)
       ELSE bracketed

OverrideFunctions == {"legacy"}

\* Mutant: an omitted line type falls back to 'current'.
plain_DefaultCurrent(message, lineTypeArg) ==
    LET lineType == IF lineTypeArg = "undefined" THEN "current" ELSE lineTypeArg
    IN <<WriteEvent(escapeSequence(lineType) \o message)>>

\* Logger.plain: the write handed to consoleFunction.
plain(message, lineTypeArg) ==
    LET lineType == IF lineTypeArg = "undefined" THEN "new" ELSE lineTypeArg
    IN <<WriteEvent(escapeSequence(lineType) \o message)>>

\* Mutant: the label is not filled to the width of the longest type name.
getPrefixForType_NoPadding(type, useColorOverrideArg, overridePrefixTextArg) ==
    LET useColorOverride == Default(useColorOverrideArg, Null)
        overridePrefixText == Default(overridePrefixTextArg, Null)
        prefixText == toUpperCase(IF overridePrefixText.t = "null" THEN type
                                  ELSE overridePrefixText.s)
        prefixString == prefixText \o <<" ", "|">>
    IN IF getPrefixForTypeOverride # "unset"
       THEN legacyGetPrefixForType(type, useColorOverride)
       ELSE IF (IF useColorOverride.t = "null" THEN useColor ELSE useColorOverride.b)
            THEN colorType(type, prefixString)
            ELSE prefixString

\* Mutant: a null colour override colours the prefix whatever useColor is.
getPrefixForType_NullMeansColor(type, useColorOverrideArg, overridePrefixTextArg) ==
    LET useColorOverride == Default(useColorOverrideArg, Null)
        overridePrefixText == Default(overridePrefixTextArg, Null)
        prefixText == toUpperCase(IF overridePrefixText.t = "null" THEN type
                                  ELSE overridePrefixText.s)
        prefixString == prefixText
                        \o repeat(" ", largestLoggerTypeLength - Len(prefixText))
                        \o <<" ", "|">>
    IN IF getPrefixForTypeOverride # "unset"
       THEN legacyGetPrefixForType(type, useColorOverride)
       ELSE IF (IF useColorOverride.t = "null" THEN TRUE ELSE useColorOverride.b)
            THEN colorType(type, prefixString)
            ELSE prefixString

\* Logger.getPrefixForType
getPrefixForType(type, useColorOverrideArg, overridePrefixTextArg) ==
    LET useColorOverride == Default(useColorOverrideArg, Null)
        overridePrefixText == Default(overridePrefixTextArg, Null)
        prefixText == toUpperCase(IF overridePrefixText.t = "null" THEN type
                                  ELSE overridePrefixText.s)
        prefixString == prefixText
                        \o repeat(" ", largestLoggerTypeLength - Len(prefixText))
                        \o <<" ", "|">>
    IN IF getPrefixForTypeOverride # "unset"
       THEN legacyGetPrefixForType(type, useColorOverride)
       ELSE IF (IF useColorOverride.t = "null" THEN useColor ELSE useColorOverride.b)
            THEN colorType(type, prefixString)
            ELSE prefixString

\* Mutant: the observer is notified after the write.
log_WriteFirst(type, message) ==
    Returned(plain(getPrefixForType(type, Undefined, Undefined) \o <<" ">> \o message,
                   "undefined")
             \o (IF onLog THEN <<OnLogEvent(type, Str(message))>> ELSE <<>>))

\* Logger.log
log(type, message) ==
    Returned((IF onLog THEN <<OnLogEvent(type, Str(message))>> ELSE <<>>)
             \o plain(getPrefixForType(type, Undefined, Undefined) \o <<" ">> \o message,
                      "undefined"))

defaultIndentLength == 4

\* Mutant: the observer is handed the indented text.
logJSON_NotifiesIndented(type, objectOrArray, indentLengthArg) ==
    LET indentLength == Default(indentLengthArg, Num(defaultIndentLength))
        jsonText == JSONstringify(objectOrArray, indentLength)
        notified == IF onLog THEN <<OnLogEvent(type, jsonText)>> ELSE <<>>
        colored == IF useColor THEN colorizeJSON(jsonText.s) ELSE jsonText.s
    IN IF jsonText.t = "throw" THEN Threw(<<>>)
       ELSE IF jsonText.t = "undefined" THEN Threw(notified)
       ELSE Returned(
                notified
                \o plain(getPrefixForType(type, Undefined, Undefined) \o <<" ">>
                         \o replaceAll(colored, <<LF>>,
                                <<LF>> \o getPrefixForType(type, Null, Str(<<>>)) \o <<" ">>),
                         "undefined"))

\* Logger.logJSON
logJSON(type, objectOrArray, indentLengthArg) ==
    LET indentLength == Default(indentLengthArg, Num(defaultIndentLength))
        compact == JSONstringify(objectOrArray, Undefined)
        notified == IF onLog THEN <<OnLogEvent(type, compact)>> ELSE <<>>
        jsonText == JSONstringify(objectOrArray, indentLength)
        colored == IF useColor THEN colorizeJSON(jsonText.s) ELSE jsonText.s
    IN IF onLog /\ compact.t = "throw" THEN Threw(<<>>)
       ELSE IF jsonText.t = "throw" THEN Threw(notified)
       ELSE IF jsonText.t = "undefined" THEN Threw(notified)
       ELSE Returned(
                notified
                \o plain(getPrefixForType(type, Undefined, Undefined) \o <<" ">>
                         \o replaceAll(colored, <<LF>>,
                                <<LF>> \o getPrefixForType(type, Null, Str(<<>>)) \o <<" ">>),
                         "undefined"))

\* ------------------------------------------------------------------------
\* The inputs the calls are made with
\* ------------------------------------------------------------------------

\* The largest container (array length, number of properties) logged.
MaxElements == 2
\* The largest indent width given explicitly.
MaxIndent == 2

Messages == { <<>>, <<"x">>, <<"d", "i", "s", "k", " ", "f", "u", "l", "l">> }

TypeStrings == { <<>>, <<"O", "K">> }

PrefixTexts == { Undefined, Null, Str(<<>>), Str(<<"n", "o", "t", "e">>) }

ColorOverrides == { Undefined, Null, Bool(TRUE), Bool(FALSE) }

LineTypeArgs == LineType \cup {"undefined"}

\* No width, the widths up to MaxIndent, and one beyond the ten spaces
\* JSON.stringify indents by at most.
IndentArgs == {Undefined} \cup {Num(n) : n \in 0..MaxIndent} \cup {Num(11)}

Atoms == { Num(0), Num(1), Num(3), Num(-12), Str(<<"a">>), Str(<<ESC, "[", "1", "m">>),
           Bool(TRUE), Bool(FALSE), Null }

ArrayItems == { Num(0), Num(1), Str(<<"a">>), Null }

PropertyKeys == { <<"a">>, <<"b">> }

PropertyValues == { Num(1), Num(3), Str(<<"a">>), Bool(TRUE) }

SeqsUpTo(S, n) == UNION {[1..k -> S] : k \in 0..n}

Arrays == {Arr(items) : items \in SeqsUpTo(ArrayItems, MaxElements)}

Objects ==
    {Obj(props) : props \in
        {ps \in SeqsUpTo(PropertyKeys \X PropertyValues, MaxElements) :
            \A i, j \in 1..Len(ps) : i # j => ps[i][1] # ps[j][1]}}

Nested == { Obj(<< <<<<"a">>, Arr(<<Num(1), Undefined>>)>>, <<<<"b">>, Undefined>> >>),
            Arr(<<Str(<<"a">>), Str(<<":">>)>>) }

Serializable == Atoms \cup Arrays \cup Objects \cup Nested

Unserializable == { Undefined, Circular }

Values == Serializable \cup Unserializable

\* ------------------------------------------------------------------------
\* The state machine: field assignments and method calls on one Logger.  The
\* Logger keeps nothing from one call to the next; the harness clears its
\* recordings between calls.
\* ------------------------------------------------------------------------

NoCall == [op |-> "none"]
NoResult == [outcome |-> "none"]

Idle == call = NoCall

\* new Logger(useColor, captureSink)
Init ==
    /\ useColor \in BOOLEAN
    /\ onLog = FALSE
    /\ getPrefixForTypeOverride = "unset"
    /\ call = NoCall
    /\ events = <<>>
    /\ result = NoResult

\* logger.useColor = b
SetUseColor(b) ==
    /\ Idle
    /\ useColor' = b
    /\ UNCHANGED <<onLog, getPrefixForTypeOverride, call, events, result>>

\* logger.onLog = observer, or = undefined
SetOnLog(b) ==
    /\ Idle
    /\ onLog' = b
    /\ UNCHANGED <<useColor, getPrefixForTypeOverride, call, events, result>>

\* logger.getPrefixForTypeOverride = f, or = undefined
SetGetPrefixForTypeOverride(f) ==
    /\ Idle
    /\ getPrefixForTypeOverride' = f
    /\ UNCHANGED <<useColor, onLog, call, events, result>>

\* logger.plain(message, lineType)
Plain(message, lineTypeArg) ==
    /\ Idle
    /\ call' = [op |-> "plain", message |-> message, lineType |-> lineTypeArg]
    /\ events' = plain(message, lineTypeArg)
    /\ result' = [outcome |-> "returned", value |-> Undefined]
    /\ UNCHANGED <<useColor, onLog, getPrefixForTypeOverride>>

\* logger.colorType(type, typeString)
ColorType(type, typeString) ==
    /\ Idle
    /\ call' = [op |-> "colorType", type |-> type, typeString |-> typeString]
    /\ events' = <<>>
    /\ result' = [outcome |-> "returned", value |-> Str(colorType(type, typeString))]
    /\ UNCHANGED <<useColor, onLog, getPrefixForTypeOverride>>

\* logger.getPrefixForType(type, useColorOverride, overridePrefixText)
GetPrefixForType(type, useColorOverrideArg, overridePrefixTextArg) ==
    /\ Idle
    /\ call' = [op |-> "getPrefixForType", type |-> type,
                useColorOverride |-> useColorOverrideArg,
                overridePrefixText |-> overridePrefixTextArg]
    /\ events' = <<>>
    /\ result' = [outcome |-> "returned",
                  value |-> Str(getPrefixForType(type, useColorOverrideArg,
                                                 overridePrefixTextArg))]
    /\ UNCHANGED <<useColor, onLog, getPrefixForTypeOverride>>

\* logger.log(type, message)
Log(type, message) ==
    /\ Idle
    /\ call' = [op |-> "log", type |-> type, message |-> message]
    /\ events' = log(type, message).events
    /\ result' = [outcome |-> log(type, message).outcome, value |-> Undefined]
    /\ UNCHANGED <<useColor, onLog, getPrefixForTypeOverride>>

\* logger.logJSON(type, objectOrArray, indentLength)
LogJSON(type, objectOrArray, indentLengthArg) ==
    LET done == logJSON(type, objectOrArray, indentLengthArg)
    IN /\ Idle
       /\ call' = [op |-> "logJSON", type |-> type, value |-> objectOrArray,
                   indentLength |-> indentLengthArg]
       /\ events' = done.events
       /\ result' = [outcome |-> done.outcome, value |-> Undefined]
       /\ UNCHANGED <<useColor, onLog, getPrefixForTypeOverride>>

\* The harness empties its recordings before the next call.
Clear ==
    /\ ~Idle
    /\ call' = NoCall
    /\ events' = <<>>
    /\ result' = NoResult
    /\ UNCHANGED <<useColor, onLog, getPrefixForTypeOverride>>

Next ==
    \/ \E b \in BOOLEAN : SetUseColor(b)
    \/ \E b \in BOOLEAN : SetOnLog(b)
    \/ \E f \in OverrideFunctions \cup {"unset"} : SetGetPrefixForTypeOverride(f)
    \/ \E message \in Messages, lineTypeArg \in LineTypeArgs : Plain(message, lineTypeArg)
    \/ \E type \in LoggerType, typeString \in TypeStrings : ColorType(type, typeString)
    \/ \E type \in LoggerType, c \in ColorOverrides, p \in PrefixTexts :
           GetPrefixForType(type, c, p)
    \/ \E type \in LoggerType, message \in Messages : Log(type, message)
    \/ \E type \in LoggerType, v \in Values, n \in IndentArgs : LogJSON(type, v, n)
    \/ Clear

Spec == Init /\ [][Next]_vars

\* ------------------------------------------------------------------------
\* Vocabulary of the properties
\* ------------------------------------------------------------------------

\* The events of each kind, in order.
Writes == SelectSeq(events, LAMBDA e : e.kind = "write")
Notifications == SelectSeq(events, LAMBDA e : e.kind = "onLog")

Occurrences(s, c) == Cardinality({i \in 1..Len(s) : s[i] = c})

Contains(s, pat) == \E i \in 1..Len(s) : OccursAt(s, pat, i)

\* The fixed tables, restated from the documentation.
EscapeSequenceTable ==
    [new |-> <<LF>>, current |-> <<>>, overlap |-> <<CR>>, doubleNew |-> <<LF, LF>>,
     space |-> <<" ">>, replace |-> <<ESC, "[", "2", "K", CR>>]

ColorDigit(type) ==
    CASE type = info -> "4" [] type = warn -> "3" [] type = error -> "1"
      [] type = debug -> "6" [] type = success -> "2" [] type = misc -> "7"

ColorCode(type) == <<ESC, "[", "3", ColorDigit(type), "m">>

\* The label column: the type's name in capitals, filled with spaces to the width
\* of the longest name, SUCCESS.
LabelColumn(type) ==
    CASE type = info -> <<"I", "N", "F", "O", " ", " ", " ">>
      [] type = warn -> <<"W", "A", "R", "N", " ", " ", " ">>
      [] type = error -> <<"E", "R", "R", "O", "R", " ", " ">>
      [] type = debug -> <<"D", "E", "B", "U", "G", " ", " ">>
      [] type = success -> <<"S", "U", "C", "C", "E", "S", "S">>
      [] type = misc -> <<"M", "I", "S", "C", " ", " ", " ">>

EmptyLabelColumn == <<" ", " ", " ", " ", " ", " ", " ">>

\* A prefix text, coloured for the type or bare.
Dressed(type, colored, text) ==
    IF colored THEN ColorCode(type) \o text \o <<ESC, "[", "0", "m">> ELSE text

NoArgument(arg) == arg.t \in {"undefined", "null"}

CalledLog == call.op = "log"
CalledLogJSON == call.op = "logJSON"
NoOverride == getPrefixForTypeOverride = "unset"

\* ------------------------------------------------------------------------
\* C1
\* ------------------------------------------------------------------------

\* C1: log(type, msg) with onLog set notifies the observer exactly once, with
\* (type, msg) and msg as the caller gave it, before the one write of the call;
\* with onLog unset there is no notification and the write still happens.
C1_LogNotifiesOnceBeforeWrite ==
    CalledLog =>
        /\ result.outcome = "returned"
        /\ Len(Writes) = 1
        /\ IF onLog
           THEN /\ Len(events) = 2
                /\ events[1] = OnLogEvent(call.type, Str(call.message))
                /\ events[2].kind = "write"
           ELSE /\ Len(events) = 1
                /\ events[1].kind = "write"

C1_Witness ==
    /\ CalledLog
    /\ onLog
    /\ useColor
    /\ call.message = <<"d", "i", "s", "k", " ", "f", "u", "l", "l">>
    /\ Len(events) = 2

\* ------------------------------------------------------------------------
\* C2
\* ------------------------------------------------------------------------

\* C2: logJSON(type, value, indent) of a serializable value with onLog set
\* notifies the observer exactly once, with (type, the compact serialization),
\* which holds no line break and no colour code, before the write of the call.
C2_LogJSONNotifiesCompact ==
    (CalledLogJSON /\ onLog /\ call.value \in Serializable) =>
        /\ result.outcome = "returned"
        /\ Len(events) = 2
        /\ events[1] = OnLogEvent(call.type, JSONstringify(call.value, Undefined))
        /\ Occurrences(events[1].message.s, LF) = 0
        /\ Occurrences(events[1].message.s, ESC) = 0
        /\ events[2].kind = "write"

C2_Witness ==
    /\ CalledLogJSON
    /\ onLog
    /\ useColor
    /\ call.value = Obj(<< <<<<"a">>, Num(1)>>, <<<<"b">>, Str(<<"a">>)>> >>)
    /\ call.indentLength = Num(2)
    /\ Len(events) = 2

\* ------------------------------------------------------------------------
\* C3
\* ------------------------------------------------------------------------

\* C3: plain(msg, mode) hands the sink exactly one string, the mode's escape
\* sequence followed by msg, and never notifies the observer; with the mode
\* omitted the sequence of 'new', one newline, is used.
C3_PlainWritesSequenceAndMessage ==
    call.op = "plain" =>
        LET mode == IF call.lineType = "undefined" THEN "new" ELSE call.lineType
        IN /\ Len(events) = 1
           /\ events[1] = WriteEvent(EscapeSequenceTable[mode] \o call.message)
           /\ Len(Notifications) = 0

C3_Witness ==
    /\ call.op = "plain"
    /\ onLog
    /\ call.lineType = "undefined"
    /\ call.message = <<"x">>
    /\ Len(Writes) = 1

\* ------------------------------------------------------------------------
\* C4
\* ------------------------------------------------------------------------

CalledGetPrefixPlain ==
    /\ call.op = "getPrefixForType"
    /\ NoArgument(call.useColorOverride)
    /\ NoArgument(call.overridePrefixText)

\* The prefix of every type is as long as the one the call returned.
SameWidthForAllTypes ==
    \A type \in LoggerType :
        Len(getPrefixForType(type, call.useColorOverride, call.overridePrefixText))
            = Len(result.value.s)

\* C4 as stated: on any Logger, getPrefixForType(type) with no colour override
\* and no text override returns a string of the same length for all six types.
C4_Original == CalledGetPrefixPlain => SameWidthForAllTypes

\* C4 as amended: the same, on a Logger that has no prefix override function
\* set; the width is that of the label column and " |", plus the colour and
\* reset codes when useColor is true.
C4_SameWidthWithoutOverrideFunction ==
    (CalledGetPrefixPlain /\ NoOverride) =>
        /\ SameWidthForAllTypes
        /\ Len(result.value.s) = Len(EmptyLabelColumn) + 2 + (IF useColor THEN 9 ELSE 0)

C4_Witness ==
    /\ CalledGetPrefixPlain
    /\ NoOverride
    /\ useColor
    /\ call.type = info
    /\ result.outcome = "returned"

\* ------------------------------------------------------------------------
\* C5
\* ------------------------------------------------------------------------

DiskFull == <<"d", "i", "s", "k", " ", "f", "u", "l", "l">>

LoggedDiskFull ==
    /\ CalledLog
    /\ ~useColor
    /\ NoOverride
    /\ call.type = error
    /\ call.message = DiskFull

\* C5 as stated: new Logger(false, sink).log('error', 'disk full') writes a
\* newline followed by "ERROR | disk full".
C5_Original ==
    LoggedDiskFull =>
        Writes = <<WriteEvent(<<LF, "E", "R", "R", "O", "R", " ", "|", " ">> \o DiskFull)>>

\* C5 as amended: it writes a newline followed by "ERROR   | disk full", the
\* label filled with spaces to the seven characters of the longest type name.
C5_PaddedErrorLine ==
    LoggedDiskFull =>
        Writes = <<WriteEvent(<<LF, "E", "R", "R", "O", "R", " ", " ", " ", "|", " ">>
                              \o DiskFull)>>

C5_Witness == LoggedDiskFull /\ Len(Writes) = 1 /\ result.outcome = "returned"

\* ------------------------------------------------------------------------
\* C6
\* ------------------------------------------------------------------------

WroteJSON == CalledLogJSON /\ result.outcome = "returned" /\ Len(Writes) = 1

\* The written text has no escape character beyond those of the serialized
\* text of the value.
NoEscapeBeyondSerializedText ==
    Occurrences(Writes[1].text, ESC)
        <= Occurrences(JSONstringify(call.value, Default(call.indentLength,
                                                         Num(defaultIndentLength))).s, ESC)

\* C6 as stated: with useColor = false, on every configuration of the Logger,
\* what logJSON writes holds no ANSI escape sequence except those inside the
\* serialized text of the value.
C6_Original == (WroteJSON /\ ~useColor) => NoEscapeBeyondSerializedText

\* C6 as amended: the same, on a Logger that has no prefix override function
\* set.
C6_NoEscapeWithoutColor == (WroteJSON /\ ~useColor /\ NoOverride) => NoEscapeBeyondSerializedText

C6_Witness ==
    /\ WroteJSON
    /\ ~useColor
    /\ NoOverride
    /\ call.value = Str(<<ESC, "[", "1", "m">>)
    /\ call.indentLength = Num(2)
    /\ Contains(Writes[1].text, <<BACKSLASH, "u", "0", "0", "1", "b">>)

\* ------------------------------------------------------------------------
\* C7
\* ------------------------------------------------------------------------

\* What stands at an escape character: a whole colour code, a whole reset code,
\* or neither.
CodeAt(s, i) ==
    IF OccursAt(s, <<ESC, "[", "0", "m">>, i) THEN "reset"
    ELSE IF \E d \in {"1", "2", "3", "4", "5", "6", "7"} :
                OccursAt(s, <<ESC, "[", "3", d, "m">>, i)
         THEN "color"
         ELSE "broken"

\* Every escape character of s starts a whole code, no reset comes before its
\* colour code, and as many resets as colour codes are in s.
WellPaired(s) ==
    LET escapes == {i \in 1..Len(s) : s[i] = ESC}
        resets == {i \in escapes : CodeAt(s, i) = "reset"}
        colorCodes == {i \in escapes : CodeAt(s, i) = "color"}
    IN /\ escapes = resets \cup colorCodes
       /\ \A r \in resets :
              Cardinality({x \in resets : x <= r}) <= Cardinality({c \in colorCodes : c < r})
       /\ Cardinality(resets) = Cardinality(colorCodes)

\* C7: in what colorType returns and in what log and logJSON write with colour
\* enabled, every colour code is whole and is paired with a reset code.
C7_Claim ==
    /\ call.op = "colorType" => WellPaired(result.value.s)
    /\ ((CalledLog \/ CalledLogJSON) /\ useColor /\ result.outcome = "returned")
           => WellPaired(Writes[1].text)

\* ------------------------------------------------------------------------
\* C8
\* ------------------------------------------------------------------------

Token(text, class) == [text |-> text, class |-> class]

RECURSIVE TokensOf(_)
RECURSIVE TokensOfAll(_)
\* The JSON tokens of the serialized value, in document order, each with its
\* syntactic class; an undefined array element is written null, an undefined
\* property is left out.
TokensOf(value) ==
    CASE value.t = "null" -> <<Token(<<"n", "u", "l", "l">>, "null")>>
      [] value.t = "undefined" -> <<Token(<<"n", "u", "l", "l">>, "null")>>
      [] value.t = "bool" -> <<Token(IF value.b THEN <<"t", "r", "u", "e">>
                                     ELSE <<"f", "a", "l", "s", "e">>, "boolean")>>
      [] value.t = "num" -> <<Token(NumberToString(value.n), "number")>>
      [] value.t = "str" -> <<Token(QuoteJSONString(value.s), "string")>>
      [] value.t = "arr" -> TokensOfAll(value.items)
      [] value.t = "obj" ->
            TokensOfAll(
                [i \in 1..(2 * Len(value.props)) |->
                    IF i % 2 = 1 THEN [t |-> "key", s |-> value.props[(i + 1) \div 2][1]]
                    ELSE value.props[i \div 2][2]])
      [] value.t = "key" -> <<Token(QuoteJSONString(value.s), "key")>>

TokensOfAll(parts) ==
    IF parts = <<>> THEN <<>>
    ELSE IF Len(parts) >= 2 /\ parts[1].t = "key" /\ parts[2].t = "undefined"
         THEN TokensOfAll(SubSeq(parts, 3, Len(parts)))
    ELSE TokensOf(parts[1]) \o TokensOfAll(Tail(parts))

\* The common case: no token's text equals or is contained in another token's.
CommonCase(tokens) ==
    \A i, j \in 1..Len(tokens) : i # j => ~Contains(tokens[j].text, tokens[i].text)

\* Index p of s lies in an escape sequence begun and not yet closed by its m.
InEscape(s, p) ==
    \E e \in 1..(p - 1) : s[e] = ESC /\ \A k \in (e + 1)..(p - 1) : s[k] # "m"

\* Where text is shown from index i on: its first occurrence outside the
\* escape sequences, or 0.
ShownAt(s, text, i) ==
    LET shown(j) == OccursAt(s, text, j) /\ ~InEscape(s, j)
    IN IF \E j \in i..Len(s) : shown(j)
       THEN CHOOSE j \in i..Len(s) : shown(j) /\ \A k \in i..(j - 1) : ~shown(k)
       ELSE 0

\* The colour in force at index p: the code most recently emitted before p, if
\* it is a colour code and not a reset.
ColorInForce(s, p) ==
    LET before == {e \in 1..(p - 1) : s[e] = ESC}
    IN IF before = {} THEN <<>>
       ELSE LET e == Max(before)
            IN IF CodeAt(s, e) = "color" THEN SubSeq(s, e, e + 4) ELSE <<>>

ClassColor(class) ==
    CASE class = "key" -> <<ESC, "[", "3", "4", "m">>
      [] class = "string" -> <<ESC, "[", "3", "2", "m">>
      [] class \in {"number", "boolean", "null"} -> <<ESC, "[", "3", "3", "m">>

RECURSIVE TokensInClassColor(_, _, _, _)
\* Every token from the k-th on is shown, in order from index i on, in the colour
\* of its class.
TokensInClassColor(s, tokens, k, i) ==
    IF k > Len(tokens) THEN TRUE
    ELSE LET p == ShownAt(s, tokens[k].text, i)
         IN /\ p # 0
            /\ ColorInForce(s, p) = ClassColor(tokens[k].class)
            /\ TokensInClassColor(s, tokens, k + 1, p + Len(tokens[k].text))

\* C8: with colour enabled, in what logJSON writes for a document of the common
\* case, every key is under blue, every string value under green, and every
\* number, boolean and null under yellow.
C8_Claim ==
    (WroteJSON /\ useColor /\ CommonCase(TokensOf(call.value)))
        => TokensInClassColor(Writes[1].text, TokensOf(call.value), 1, 1)

\* ------------------------------------------------------------------------
\* C9
\* ------------------------------------------------------------------------

\* The text starts with a newline, the given prefix and a space, and each later
\* newline is followed at once by the given continuation prefix and a space.
Aligned(text, first, continuation) ==
    /\ OccursAt(text, <<LF>> \o first \o <<" ">>, 1)
    /\ \A i \in 2..Len(text) :
           text[i] = LF => OccursAt(text, continuation \o <<" ">>, i + 1)

MultiLine == Occurrences(Writes[1].text, LF) > 1

\* C9 as stated: what logJSON writes starts with a newline, the type's prefix
\* and a space, and every later newline is followed by the uncoloured
\* empty-text prefix, the label column of spaces and " |" with no colour code,
\* whether useColor is true or false.
C9_Original ==
    (WroteJSON /\ MultiLine) =>
        Aligned(Writes[1].text,
                getPrefixForType(call.type, Undefined, Undefined),
                EmptyLabelColumn \o <<" ", "|">>)

\* C9 as amended: every later newline is followed by the empty-text prefix as
\* getPrefixForType(type, null, '') returns it.  With no prefix override
\* function set that is the label column of spaces and " |", wrapped in the
\* type's colour code and the reset code when useColor is true and bare when it
\* is false, as the first line's prefix is; with the superseded variant's
\* function installed it is that function's coloured "[type]:".
C9_ContinuationPrefixFollowsUseColor ==
    (WroteJSON /\ MultiLine) =>
        IF NoOverride
        THEN Aligned(Writes[1].text,
                     Dressed(call.type, useColor, LabelColumn(call.type) \o <<" ", "|">>),
                     Dressed(call.type, useColor, EmptyLabelColumn \o <<" ", "|">>))
        ELSE Aligned(Writes[1].text,
                     Dressed(call.type, TRUE, <<"[">> \o call.type \o <<"]", ":">>),
                     Dressed(call.type, TRUE, <<"[">> \o call.type \o <<"]", ":">>))

C9_Witness ==
    /\ WroteJSON
    /\ MultiLine
    /\ NoOverride
    /\ useColor
    /\ call.type = warn
    /\ call.value = Obj(<< <<<<"a">>, Num(1)>>, <<<<"b">>, Bool(TRUE)>> >>)
    /\ call.indentLength = Num(2)

\* ------------------------------------------------------------------------
\* C10
\* ------------------------------------------------------------------------

\* C10: logJSON of a value that has no JSON text fails, writes nothing and does
\* not notify the observer, with useColor true or false and onLog set or unset.
C10_Claim ==
    (CalledLogJSON /\ call.value \in Unserializable) =>
        /\ result.outcome = "threw"
        /\ Len(Writes) = 0
        /\ Len(Notifications) = 0

====
